---- MODULE Spec2Model ----
(***************************************************************************)
(* OllamaTester (src/Ollama/OllamaTester.py): a sequential connectivity    *)
(* probe.  The external collaborators (socket, DNS, ping subprocess, HTTP  *)
(* client) are modelled by the outcomes they can produce; every check is   *)
(* an operator over such an outcome, and test_connection and               *)
(* get_detailed_status are modelled statement by statement.                *)
(***************************************************************************)
EXTENDS Integers, Sequences, FiniteSets, TLC

VARIABLES
    hostname,   \* urlparse(base_url).hostname
    dns,        \* what socket.gethostbyname(hostname) does: [ok, ip]
    lib,        \* [json_error_is_request_exception]: the installed HTTP library
    is_remote,  \* self.is_remote
    pc,         \* position of the running operation
    op,         \* the operation that was called
    arg,        \* the operation's inputs (model name, collaborator outcome)
    local,      \* the pending return value of the check just called
    results,    \* test_connection's `results` dictionary
    status,     \* get_detailed_status's `status` dictionary (its "tests")
    idx,        \* get_detailed_status's position in `endpoints`
    calls,      \* the methods invoked so far, in order, each with what it returned
    ret,        \* the value returned to the caller
    raised      \* an exception escaped to the caller

vars == <<hostname, dns, lib, is_remote, pc, op, arg, local, results, status,
          idx, calls, ret, raised>>

-----------------------------------------------------------------------------
(* Bounds of the model                                                     *)

\* longest "models" array of a /api/tags body
MaxModels == 2
\* HTTP status codes given to the single-call test_endpoint
MinCode == 100
MaxCode == 599

-----------------------------------------------------------------------------
(* Text: a Python str is a sequence of one-character strings               *)

Digits == <<"0", "1", "2", "3", "4", "5", "6", "7", "8", "9">>

RECURSIVE Str(_)
\* str(n) of a non-negative int: decimal, no leading zeros
Str(n) == IF n < 10 THEN <<Digits[n + 1]>>
          ELSE Str(n \div 10) \o <<Digits[(n % 10) + 1]>>

\* the dotted-quad text socket.gethostbyname returns for an IPv4 address
DottedQuad(ip) ==
    Str(ip[1]) \o <<".">> \o Str(ip[2]) \o <<".">> \o Str(ip[3]) \o <<".">> \o Str(ip[4])

\* str.startswith(tuple of prefixes)
startswith(s, prefixes) ==
    \E p \in prefixes : Len(p) <= Len(s) /\ SubSeq(s, 1, Len(p)) = p

\* mutant: the prefixes without their trailing dot
LocalPrefixesNoDot ==
    { <<"1","2","7">>, <<"1","9","2",".","1","6","8">>, <<"1","0">>,
      <<"1","7","2",".","1","6">>, <<"1","7","2",".","1","7">>,
      <<"1","7","2",".","1","8">>, <<"1","7","2",".","1","9">>,
      <<"1","7","2",".","2","0">>, <<"1","7","2",".","2","1">>,
      <<"1","7","2",".","2","2">>, <<"1","7","2",".","2","3">>,
      <<"1","7","2",".","2","4">>, <<"1","7","2",".","2","5">>,
      <<"1","7","2",".","2","6">>, <<"1","7","2",".","2","7">>,
      <<"1","7","2",".","2","8">>, <<"1","7","2",".","2","9">>,
      <<"1","7","2",".","3","0">>, <<"1","7","2",".","3","1">> }

\* the prefix tuple of line 55
LocalPrefixes ==
    { <<"1","2","7",".">>, <<"1","9","2",".","1","6","8",".">>, <<"1","0",".">>,
      <<"1","7","2",".","1","6",".">>, <<"1","7","2",".","1","7",".">>,
      <<"1","7","2",".","1","8",".">>, <<"1","7","2",".","1","9",".">>,
      <<"1","7","2",".","2","0",".">>, <<"1","7","2",".","2","1",".">>,
      <<"1","7","2",".","2","2",".">>, <<"1","7","2",".","2","3",".">>,
      <<"1","7","2",".","2","4",".">>, <<"1","7","2",".","2","5",".">>,
      <<"1","7","2",".","2","6",".">>, <<"1","7","2",".","2","7",".">>,
      <<"1","7","2",".","2","8",".">>, <<"1","7","2",".","2","9",".">>,
      <<"1","7","2",".","3","0",".">>, <<"1","7","2",".","3","1",".">> }

\* the loopback literals of line 49
LoopbackNames == {"localhost", "127.0.0.1"}

\* _is_local_url, given the parsed hostname and what DNS answers for it
is_local_url(h, d) ==
    IF h \in LoopbackNames THEN TRUE
    ELSE IF d.ok THEN startswith(DottedQuad(d.ip), LocalPrefixes)
    ELSE FALSE

-----------------------------------------------------------------------------
(* Values the checks return                                                *)

\* a message: fixed text, the status code formatted into it (-1: none) and
\* the text of the exception or of the ping's stderr formatted into it
Msg(text, code, err) == [text |-> text, code |-> code, err |-> err]

\* "return ok, msg" of a check; invoked: the methods of self it called
Return(ok, msg) == [exc |-> "", ok |-> ok, msg |-> msg, invoked |-> <<>>]

\* an exception that no except clause of the check catches
Raise(exc) == [exc |-> exc, ok |-> FALSE, msg |-> Msg("", -1, ""), invoked |-> <<>>]

-----------------------------------------------------------------------------
(* Outcomes of the external collaborators                                  *)

\* socket.create_connection(("8.8.8.8", 53), timeout=3): "" is success,
\* otherwise the exception class raised
ConnOutcomes == {"", "ConnectionRefusedError", "socket.timeout", "OSError"}

\* the classes `except OSError` catches
OSErrorClasses == {"OSError", "ConnectionRefusedError", "socket.timeout",
                   "socket.gaierror", "FileNotFoundError", "PermissionError"}

\* subprocess.run(ping_cmd, ...): a completed process with a return code,
\* or the exception class raised
PingOutcomes ==
    { [exc |-> "", rc |-> r] : r \in {0, 1, 2} }
        \cup { [exc |-> e, rc |-> -1] :
                 e \in {"subprocess.TimeoutExpired", "FileNotFoundError", "PermissionError"} }

\* the classes `except requests.exceptions.RequestException` catches
RequestExceptionClasses(l) ==
    {"requests.ConnectionError", "requests.Timeout"}
        \cup (IF l.json_error_is_request_exception
              THEN {"requests.JSONDecodeError"} ELSE {})

\* the class response.json() raises on a body that is not JSON:
\* requests.exceptions.JSONDecodeError where the library has it, ValueError
\* (json.JSONDecodeError) where it has not
JsonErrorClass(l) ==
    IF l.json_error_is_request_exception
    THEN "requests.JSONDecodeError" ELSE "ValueError"

Libs == { [json_error_is_request_exception |-> b] : b \in BOOLEAN }

\* model names, as text
llama2 == <<"l","l","a","m","a","2">>
Names == { llama2,
           <<"L","l","a","m","a","2">>,
           <<"l","l","a","m","a","2"," ">>,
           <<"l","l","a","m","a">> }

RECURSIVE SeqsUpTo(_, _)
SeqsUpTo(S, n) ==
    IF n = 0 THEN { <<>> }
    ELSE LET shorter == SeqsUpTo(S, n - 1)
         IN shorter \cup { Append(q, x) : q \in shorter, x \in S }

\* an element of the "models" array: not an object, an object without
\* "name", or an object with a "name"
Entries ==
    { [shape |-> "nonobject", name |-> <<>>], [shape |-> "no_name", name |-> <<>>] }
        \cup { [shape |-> "named", name |-> n] : n \in Names }

\* a response body: not JSON, JSON that is not an object, an object without
\* "models", an object whose "models" is null, an object whose "models" is
\* an array
Bodies ==
    { [shape |-> s, items |-> <<>>] :
        s \in {"invalid", "nonobject", "no_models", "models_null"} }
        \cup { [shape |-> "models_array", items |-> q] : q \in SeqsUpTo(Entries, MaxModels) }

\* status codes of the composite runs
SomeCodes == {200, 204, 301, 400, 401, 404, 418, 500, 503}
AllCodes == MinCode .. MaxCode

\* requests.get / requests.request: a response, or the exception class raised
HttpOutcomes(codes, bodies) ==
    { [exc |-> "", code |-> c, body |-> b] : c \in codes, b \in bodies }
        \cup { [exc |-> e, code |-> -1, body |-> [shape |-> "invalid", items |-> <<>>]] :
                 e \in {"requests.ConnectionError", "requests.Timeout"} }

-----------------------------------------------------------------------------
(* The checks                                                              *)

\* check_internet_connectivity: a bool
check_internet_connectivity(o) ==
    IF o = "" THEN Return(TRUE, Msg("", -1, ""))
    ELSE IF o \in OSErrorClasses THEN Return(FALSE, Msg("", -1, ""))
    ELSE Raise(o)

\* ping_host
ping_host(o) ==
    IF o.exc = "" THEN
        IF o.rc = 0 THEN Return(TRUE, Msg("Successfully pinged {host}", -1, ""))
        ELSE Return(FALSE, Msg("Failed to ping {host}: {result.stderr}", -1, "stderr"))
    ELSE IF o.exc = "subprocess.TimeoutExpired"
        THEN Return(FALSE, Msg("Ping timeout for {host}", -1, ""))
    ELSE Return(FALSE, Msg("Error pinging {host}: {str(e)}", -1, o.exc))

\* mutant: the ping is made for a local server too
check_remote_server_always_pings(remote, o) ==
    LET ping == ping_host(o) IN
    IF ~ping.ok
    THEN [Return(FALSE, Msg("Remote server ping failed: {ping_message}", -1, ping.msg.text))
            EXCEPT !.invoked = <<[fn |-> "ping_host", ok |-> ping.ok, exc |-> ping.exc]>>]
    ELSE [Return(TRUE, Msg("Remote server is reachable", -1, ""))
            EXCEPT !.invoked = <<[fn |-> "ping_host", ok |-> ping.ok, exc |-> ping.exc]>>]

\* check_remote_server
check_remote_server(remote, o) ==
    IF ~remote THEN Return(TRUE, Msg("Local server, no ping test needed", -1, ""))
    ELSE LET ping == ping_host(o) IN
         IF ~ping.ok
         THEN [Return(FALSE, Msg("Remote server ping failed: {ping_message}", -1, ping.msg.text))
                 EXCEPT !.invoked = <<[fn |-> "ping_host", ok |-> ping.ok, exc |-> ping.exc]>>]
         ELSE [Return(TRUE, Msg("Remote server is reachable", -1, ""))
                 EXCEPT !.invoked = <<[fn |-> "ping_host", ok |-> ping.ok, exc |-> ping.exc]>>]

\* check_server_availability
check_server_availability(o, l) ==
    IF o.exc = "" THEN
        IF o.code = 200 THEN Return(TRUE, Msg("Server is available and responding", -1, ""))
        ELSE Return(FALSE, Msg("Server returned status code: {response.status_code}", o.code, ""))
    ELSE IF o.exc \in RequestExceptionClasses(l)
        THEN Return(FALSE, Msg("Server is not reachable: {str(e)}", -1, o.exc))
    ELSE Raise(o.exc)

\* model.get("name") == model_name, for a "name" that is present
NameEq(a, b) == a = b

RECURSIVE scan_models(_, _)
\* the for loop of lines 158-161 over the rest of the array
scan_models(items, model_name) ==
    IF items = <<>> THEN Return(FALSE, Msg("Model {model_name} is not loaded", -1, ""))
    ELSE LET model == Head(items) IN
         IF model.shape = "nonobject" THEN Raise("AttributeError")
         ELSE IF model.shape = "named" /\ NameEq(model.name, model_name)
             THEN Return(TRUE, Msg("Model {model_name} is available", -1, ""))
         ELSE scan_models(Tail(items), model_name)

\* check_model_status
check_model_status(o, model_name, l) ==
    LET caught(exc) ==
            IF exc \in RequestExceptionClasses(l)
            THEN Return(FALSE, Msg("Error checking model status: {str(e)}", -1, exc))
            ELSE Raise(exc)
    IN
    IF o.exc # "" THEN caught(o.exc)
    ELSE IF o.code = 200 THEN
        CASE o.body.shape = "invalid"      -> caught(JsonErrorClass(l))
          [] o.body.shape = "nonobject"    -> caught("AttributeError")
          [] o.body.shape = "no_models"    -> scan_models(<<>>, model_name)
          [] o.body.shape = "models_null"  -> caught("TypeError")
          [] o.body.shape = "models_array" ->
                LET r == scan_models(o.body.items, model_name)
                IN  IF r.exc = "" THEN r ELSE caught(r.exc)
    ELSE Return(FALSE, Msg("Failed to check model status: {response.status_code}", o.code, ""))

\* mutant: the 4xx branch tested before the 401 and 404 branches
test_endpoint_4xx_first(o, l) ==
    IF o.exc = "" THEN
        IF o.code >= 500 THEN Return(FALSE, Msg("Server error: {response.status_code}", o.code, ""))
        ELSE IF o.code >= 400 THEN Return(FALSE, Msg("Request failed: {response.status_code}", o.code, ""))
        ELSE IF o.code = 401 THEN Return(FALSE, Msg("Authentication failed", -1, ""))
        ELSE IF o.code = 404 THEN Return(FALSE, Msg("Endpoint not found", -1, ""))
        ELSE Return(TRUE, Msg("Endpoint test successful: {response.status_code}", o.code, ""))
    ELSE IF o.exc = "requests.Timeout" THEN Return(FALSE, Msg("Request timed out", -1, ""))
    ELSE IF o.exc \in RequestExceptionClasses(l)
        THEN Return(FALSE, Msg("Request failed: {str(e)}", -1, o.exc))
    ELSE Raise(o.exc)

\* test_endpoint (method GET, no data)
test_endpoint(o, l) ==
    IF o.exc = "" THEN
        IF o.code = 401 THEN Return(FALSE, Msg("Authentication failed", -1, ""))
        ELSE IF o.code = 404 THEN Return(FALSE, Msg("Endpoint not found", -1, ""))
        ELSE IF o.code >= 500 THEN Return(FALSE, Msg("Server error: {response.status_code}", o.code, ""))
        ELSE IF o.code >= 400 THEN Return(FALSE, Msg("Request failed: {response.status_code}", o.code, ""))
        ELSE Return(TRUE, Msg("Endpoint test successful: {response.status_code}", o.code, ""))
    ELSE IF o.exc = "requests.Timeout" THEN Return(FALSE, Msg("Request timed out", -1, ""))
    ELSE IF o.exc \in RequestExceptionClasses(l)
        THEN Return(FALSE, Msg("Request failed: {str(e)}", -1, o.exc))
    ELSE Raise(o.exc)

-----------------------------------------------------------------------------
(* State                                                                   *)

Hosts == {"localhost", "ollama.example.com"}
NoAnswer == [ok |-> FALSE, ip |-> <<0, 0, 0, 0>>]
SomeDns == { NoAnswer, [ok |-> TRUE, ip |-> <<192, 168, 1, 10>>],
             [ok |-> TRUE, ip |-> <<8, 8, 8, 8>>] }

NoValue == [exc |-> "", ok |-> FALSE, msg |-> Msg("", -1, ""), invoked |-> <<>>]
NoReport == [status |-> "", details |-> <<>>]
NoStatus == [is_remote |-> FALSE, tests |-> <<>>]

\* d[k] = v of a Python dict
Put(d, k, v) == [x \in (DOMAIN d) \cup {k} |-> IF x = k THEN v ELSE d[x]]

\* the object after __init__ (lines 31-34), no operation called yet
Constructed(h, d, l) ==
    /\ hostname = h
    /\ dns = d
    /\ lib = l
    /\ is_remote = ~is_local_url(h, d)
    /\ pc = "idle"
    /\ op = ""
    /\ arg = <<>>
    /\ local = NoValue
    /\ results = NoReport
    /\ status = NoStatus
    /\ idx = 0
    /\ calls = <<>>
    /\ ret = <<>>
    /\ raised = ""

Init == \E h \in Hosts, d \in SomeDns, l \in Libs : Constructed(h, d, l)

\* the calls a call of fn with result r adds to the log: fn itself, then the
\* methods of self it called
Invoked(fn, r) == <<[fn |-> fn, ok |-> r.ok, exc |-> r.exc]>> \o r.invoked

-----------------------------------------------------------------------------
(* test_connection, lines 166-225                                          *)

\* lines 173-177
TestConnection ==
    /\ pc = "idle"
    /\ op' = "test_connection"
    /\ results' = [status |-> "UNKNOWN_ERROR", details |-> <<>>]
    /\ pc' = "tc_internet"
    /\ UNCHANGED <<hostname, dns, lib, is_remote, arg, local, status, idx, calls, ret, raised>>

\* a check is called at `at`; its value is held for the statement at `next`,
\* or its exception leaves test_connection
TC_Call(at, fn, r, next) ==
    /\ pc = at
    /\ calls' = calls \o Invoked(fn, r)
    /\ local' = r
    /\ IF r.exc = "" THEN pc' = next /\ raised' = raised
       ELSE pc' = "raised" /\ raised' = r.exc
    /\ UNCHANGED <<hostname, dns, lib, is_remote, op, arg, results, status, idx, ret>>

\* the check's value is stored under `key`; a false value sets the status
\* `failed` and returns, a true one goes on to `next` (or, after the last
\* check, sets CONNECTED and returns)
TC_Record(at, key, message, failed, next) ==
    /\ pc = at
    /\ LET details == Put(results.details, key,
                          [available |-> local.ok, message |-> message])
       IN  IF ~local.ok
           THEN /\ results' = [status |-> failed, details |-> details]
                /\ pc' = "returned"
                /\ ret' = results'
           ELSE IF next = "returned"
           THEN /\ results' = [status |-> "CONNECTED", details |-> details]
                /\ pc' = "returned"
                /\ ret' = results'
           ELSE /\ results' = [results EXCEPT !.details = details]
                /\ pc' = next
                /\ ret' = ret
    /\ UNCHANGED <<hostname, dns, lib, is_remote, op, arg, local, status, idx, calls, raised>>

\* line 180
TC_Internet ==
    /\ pc = "tc_internet"
    /\ \E o \in ConnOutcomes :
        TC_Call("tc_internet", "check_internet_connectivity",
                check_internet_connectivity(o), "tc_internet_rec")

\* mutant: a failed internet check does not end the run
TC_InternetRecordNoReturn ==
    /\ pc = "tc_internet_rec"
    /\ results' = [results EXCEPT !.details =
                     Put(results.details, "internet",
                         [available |-> local.ok,
                          message |-> Msg(IF local.ok THEN "Internet is available"
                                          ELSE "No internet connection", -1, "")])]
    /\ pc' = "tc_remote"
    /\ UNCHANGED <<hostname, dns, lib, is_remote, op, arg, local, status, idx, calls,
                   ret, raised>>

\* lines 181-188
TC_InternetRecord ==
    TC_Record("tc_internet_rec", "internet",
              Msg(IF local.ok THEN "Internet is available" ELSE "No internet connection",
                  -1, ""),
              "NO_INTERNET", "tc_remote")

\* lines 191-192
TC_Remote ==
    \/ /\ pc = "tc_remote"
       /\ is_remote
       /\ \E o \in PingOutcomes :
            TC_Call("tc_remote", "check_remote_server",
                    check_remote_server(is_remote, o), "tc_remote_rec")
    \/ /\ ~is_remote
       /\ pc = "tc_remote"
       /\ pc' = "tc_server"
       /\ UNCHANGED <<hostname, dns, lib, is_remote, op, arg, local, results, status,
                      idx, calls, ret, raised>>

\* mutant: an unreachable remote host is reported as an unreachable server
TC_RemoteRecordServerStatus ==
    TC_Record("tc_remote_rec", "remote", local.msg, "SERVER_UNREACHABLE", "tc_server")

\* lines 193-200
TC_RemoteRecord ==
    TC_Record("tc_remote_rec", "remote", local.msg,
              "REMOTE_SERVER_UNREACHABLE", "tc_server")

\* line 203
TC_Server ==
    /\ pc = "tc_server"
    /\ \E o \in HttpOutcomes(SomeCodes, Bodies) :
        TC_Call("tc_server", "check_server_availability",
                check_server_availability(o, lib), "tc_server_rec")

\* mutant: the server's result is not stored when the server check fails
TC_ServerRecordSkipOnFailure ==
    /\ pc = "tc_server_rec"
    /\ IF ~local.ok
       THEN /\ results' = [results EXCEPT !.status = "SERVER_UNREACHABLE"]
            /\ pc' = "returned"
            /\ ret' = results'
       ELSE /\ results' = [results EXCEPT !.details =
                             Put(results.details, "server",
                                 [available |-> local.ok, message |-> local.msg])]
            /\ pc' = "tc_model"
            /\ ret' = ret
    /\ UNCHANGED <<hostname, dns, lib, is_remote, op, arg, local, status, idx, calls, raised>>

\* lines 204-211
TC_ServerRecord ==
    TC_Record("tc_server_rec", "server", local.msg, "SERVER_UNREACHABLE", "tc_model")

\* line 214
TC_Model ==
    /\ pc = "tc_model"
    /\ \E o \in HttpOutcomes(SomeCodes, Bodies) :
        TC_Call("tc_model", "check_model_status",
                check_model_status(o, llama2, lib), "tc_model_rec")

\* mutant: a missing model still ends in CONNECTED
TC_ModelRecordAlwaysConnected ==
    /\ pc = "tc_model_rec"
    /\ results' = [status |-> "CONNECTED",
                   details |-> Put(results.details, "model",
                                   [available |-> local.ok, message |-> local.msg])]
    /\ pc' = "returned"
    /\ ret' = results'
    /\ UNCHANGED <<hostname, dns, lib, is_remote, op, arg, local, status, idx, calls, raised>>

\* lines 215-225
TC_ModelRecord ==
    TC_Record("tc_model_rec", "model", local.msg, "MODEL_NOT_LOADED", "returned")

-----------------------------------------------------------------------------
(* get_detailed_status, lines 265-305                                      *)

\* lines 292-296
endpoints == <<"/api/tags", "/api/version", "/api/health">>

\* lines 272-278
GetDetailedStatus ==
    /\ pc = "idle"
    /\ op' = "get_detailed_status"
    /\ status' = [is_remote |-> is_remote, tests |-> <<>>]
    /\ pc' = "ds_internet"
    /\ UNCHANGED <<hostname, dns, lib, is_remote, arg, local, results, idx, calls, ret, raised>>

\* one statement of get_detailed_status: fn is called and, unless it raises,
\* `value` is stored in tests under `key`
DS_Step(fn, r, key, value, next, i) ==
    /\ calls' = calls \o Invoked(fn, r)
    /\ local' = r
    /\ IF r.exc = ""
       THEN /\ status' = [status EXCEPT !.tests = Put(status.tests, key, value)]
            /\ pc' = next
            /\ idx' = i
            /\ raised' = raised
       ELSE /\ status' = status
            /\ pc' = "raised"
            /\ idx' = idx
            /\ raised' = r.exc
    /\ UNCHANGED <<hostname, dns, lib, is_remote, op, arg, results, ret>>

\* line 281
DS_Internet ==
    /\ pc = "ds_internet"
    /\ \E o \in ConnOutcomes :
         LET r == check_internet_connectivity(o)
         IN  DS_Step("check_internet_connectivity", r, "internet", r.ok, "ds_remote", idx)

\* lines 284-289
DS_Remote ==
    /\ pc = "ds_remote"
    /\ \/ /\ is_remote
          /\ \E o \in PingOutcomes :
               LET r == check_remote_server(is_remote, o)
               IN  DS_Step("check_remote_server", r, "remote",
                           [available |-> r.ok, message |-> r.msg], "ds_endpoints", 1)
       \/ /\ ~is_remote
          /\ pc' = "ds_endpoints"
          /\ idx' = 1
          /\ UNCHANGED <<hostname, dns, lib, is_remote, op, arg, local, results, status,
                         calls, ret, raised>>

\* mutant: the loop over the endpoints stops at the first failing endpoint
DS_EndpointStopOnFailure ==
    /\ pc = "ds_endpoints"
    /\ idx <= Len(endpoints)
    /\ \E o \in HttpOutcomes(SomeCodes, {[shape |-> "invalid", items |-> <<>>]}) :
         LET r == test_endpoint(o, lib)
         IN  DS_Step("test_endpoint " \o endpoints[idx], r, endpoints[idx],
                     [success |-> r.ok, message |-> r.msg], "ds_endpoints",
                     IF r.ok THEN idx + 1 ELSE Len(endpoints) + 1)

\* lines 298-303, one iteration
DS_Endpoint ==
    /\ pc = "ds_endpoints"
    /\ idx <= Len(endpoints)
    /\ \E o \in HttpOutcomes(SomeCodes, {[shape |-> "invalid", items |-> <<>>]}) :
         LET r == test_endpoint(o, lib)
         IN  DS_Step("test_endpoint " \o endpoints[idx], r, endpoints[idx],
                     [success |-> r.ok, message |-> r.msg], "ds_endpoints", idx + 1)

\* line 305
DS_Return ==
    /\ pc = "ds_endpoints"
    /\ idx > Len(endpoints)
    /\ pc' = "returned"
    /\ ret' = status
    /\ UNCHANGED <<hostname, dns, lib, is_remote, op, arg, local, results, status, idx,
                   calls, raised>>

-----------------------------------------------------------------------------
(* The checks called on their own                                          *)

\* the caller calls fn with input a; r is what fn does
Call(fn, a, r) ==
    /\ pc = "idle"
    /\ op' = fn
    /\ arg' = a
    /\ calls' = calls \o Invoked(fn, r)
    /\ IF r.exc = ""
       THEN pc' = "returned" /\ ret' = r /\ raised' = raised
       ELSE pc' = "raised" /\ ret' = ret /\ raised' = r.exc
    /\ UNCHANGED <<hostname, dns, lib, is_remote, local, results, status, idx>>

CheckInternetConnectivity ==
    /\ pc = "idle"
    /\ \E o \in ConnOutcomes :
        Call("check_internet_connectivity", [outcome |-> o], check_internet_connectivity(o))

PingHost ==
    /\ pc = "idle"
    /\ \E o \in PingOutcomes :
        Call("ping_host", [outcome |-> o], ping_host(o))

CheckRemoteServer ==
    /\ pc = "idle"
    /\ \E o \in PingOutcomes :
        Call("check_remote_server", [outcome |-> o], check_remote_server(is_remote, o))

CheckServerAvailability ==
    /\ pc = "idle"
    /\ \E o \in HttpOutcomes(SomeCodes, Bodies) :
        Call("check_server_availability", [outcome |-> o], check_server_availability(o, lib))

CheckModelStatus ==
    /\ pc = "idle"
    /\ \E o \in HttpOutcomes(SomeCodes, Bodies), n \in Names :
        Call("check_model_status", [outcome |-> o, model_name |-> n],
             check_model_status(o, n, lib))

TestEndpoint ==
    /\ pc = "idle"
    /\ \E o \in HttpOutcomes(AllCodes, {[shape |-> "invalid", items |-> <<>>]}) :
        Call("test_endpoint", [outcome |-> o], test_endpoint(o, lib))

-----------------------------------------------------------------------------
(* The probe: one operation called on a constructed object                 *)

Next ==
    \/ TestConnection
    \/ TC_Internet
    \/ TC_InternetRecord
    \/ TC_Remote
    \/ TC_RemoteRecord
    \/ TC_Server
    \/ TC_ServerRecord
    \/ TC_Model
    \/ TC_ModelRecord
    \/ GetDetailedStatus
    \/ DS_Internet
    \/ DS_Remote
    \/ DS_Endpoint
    \/ DS_Return
    \/ CheckInternetConnectivity
    \/ PingHost
    \/ CheckRemoteServer
    \/ CheckServerAvailability
    \/ CheckModelStatus
    \/ TestEndpoint

Spec == Init /\ [][Next]_vars

-----------------------------------------------------------------------------
(* Construction: __init__ and _is_local_url over the IPv4 addresses        *)

\* the third octets tried (the fourth is 1)
TailOctets == {0, 255}

\* what DNS may answer: no address, or an IPv4 address with any first two
\* octets
AllDns(tail) ==
    { NoAnswer } \cup
    { [ok |-> TRUE, ip |-> <<a, b, c, d>>] :
        a \in 0 .. 255, b \in 0 .. 255, c \in tail, d \in {1} }

\* before __init__ has run: the URL, and what DNS will answer, are given
InitNew ==
    /\ hostname \in {"localhost", "127.0.0.1", "ollama.example.com"}
    /\ dns \in AllDns(TailOctets)
    /\ lib = [json_error_is_request_exception |-> TRUE]
    /\ is_remote = FALSE
    /\ pc = "new"
    /\ op = ""
    /\ arg = <<>>
    /\ local = NoValue
    /\ results = NoReport
    /\ status = NoStatus
    /\ idx = 0
    /\ calls = <<>>
    /\ ret = <<>>
    /\ raised = ""

\* lines 31-34
Construct ==
    /\ pc = "new"
    /\ is_remote' = ~is_local_url(hostname, dns)
    /\ pc' = "idle"
    /\ UNCHANGED <<hostname, dns, lib, op, arg, local, results, status, idx, calls,
                   ret, raised>>

NextNew == Construct

SpecNew == InitNew /\ [][NextNew]_vars

-----------------------------------------------------------------------------
(* Properties                                                              *)

\* the checks test_connection itself called (ping_host is called by
\* check_remote_server, not by test_connection)
TopCalls == SelectSeq(calls, LAMBDA c : c.fn # "ping_host")

\* the key of `details` a check is recorded under
KeyOf(fn) ==
    CASE fn = "check_internet_connectivity" -> "internet"
      [] fn = "check_remote_server"         -> "remote"
      [] fn = "check_server_availability"   -> "server"
      [] fn = "check_model_status"          -> "model"

\* the fixed order of the checks for this configuration
CheckOrder ==
    IF is_remote
    THEN <<"check_internet_connectivity", "check_remote_server",
           "check_server_availability", "check_model_status">>
    ELSE <<"check_internet_connectivity", "check_server_availability",
           "check_model_status">>

\* C1: when the internet check returns false, test_connection invokes no
\* other check, and returns NO_INTERNET with details = {internet: available
\* false}, for local and remote configurations alike.
C1_NoInternetShortCircuit ==
    (op = "test_connection" /\ Len(calls) >= 1 /\ ~calls[1].ok)
        => /\ calls[1].fn = "check_internet_connectivity"
           /\ Len(calls) = 1
           /\ pc \in {"tc_internet_rec", "returned"}
           /\ pc = "returned"
                => /\ ret.status = "NO_INTERNET"
                   /\ DOMAIN ret.details = {"internet"}
                   /\ ~ret.details["internet"].available

C1_Witness ==
    /\ op = "test_connection" /\ pc = "returned" /\ is_remote
    /\ ~calls[1].ok
    /\ ret.status = "NO_INTERNET"

\* C2: remote configuration, internet check true, ping_host false:
\* test_connection returns REMOTE_SERVER_UNREACHABLE and details has exactly
\* the keys internet and remote.
C2_RemoteUnreachable ==
    (/\ op = "test_connection" /\ pc = "returned" /\ is_remote
     /\ calls[1].ok
     /\ \E i \in 1 .. Len(calls) : calls[i].fn = "ping_host" /\ ~calls[i].ok)
        => /\ ret.status = "REMOTE_SERVER_UNREACHABLE"
           /\ DOMAIN ret.details = {"internet", "remote"}
           /\ ret.details["internet"].available
           /\ ~ret.details["remote"].available

C2_Witness ==
    /\ op = "test_connection" /\ pc = "returned" /\ is_remote
    /\ Len(calls) = 3 /\ calls[3].fn = "ping_host" /\ ~calls[3].ok
    /\ calls[3].exc = ""
    /\ ret.status = "REMOTE_SERVER_UNREACHABLE"

\* the status a failing check gives
StatusOfFailure(fn) ==
    CASE fn = "check_internet_connectivity" -> "NO_INTERNET"
      [] fn = "check_remote_server"         -> "REMOTE_SERVER_UNREACHABLE"
      [] fn = "check_server_availability"   -> "SERVER_UNREACHABLE"
      [] fn = "check_model_status"          -> "MODEL_NOT_LOADED"

\* C3: the status test_connection returns is that of the first check that
\* returned false, and CONNECTED exactly when every check of the
\* configuration's order was made and returned true; never UNKNOWN_ERROR,
\* AUTHENTICATION_FAILED, TIMEOUT or RESOURCE_UNAVAILABLE.
C3_StatusIsFirstFailure ==
    (op = "test_connection" /\ pc = "returned")
        => LET failing == { i \in 1 .. Len(TopCalls) : ~TopCalls[i].ok }
               first == CHOOSE i \in failing : \A j \in failing : i <= j
           IN  /\ ret.status = IF failing = {} THEN "CONNECTED"
                               ELSE StatusOfFailure(TopCalls[first].fn)
               /\ ret.status = "CONNECTED"
                    <=> /\ Len(TopCalls) = Len(CheckOrder)
                        /\ \A i \in 1 .. Len(TopCalls) : TopCalls[i].ok
               /\ ret.status \notin {"UNKNOWN_ERROR", "AUTHENTICATION_FAILED",
                                     "TIMEOUT", "RESOURCE_UNAVAILABLE"}

C3_Witness ==
    /\ op = "test_connection" /\ pc = "returned" /\ is_remote
    /\ ret.status = "CONNECTED"
    /\ Len(TopCalls) = 4

\* C4: no exception escapes a check, test_connection or get_detailed_status
\* to its caller, whatever the collaborators do.
C4_NoExceptionEscapes == pc # "raised" /\ raised = ""

\* C5: test_endpoint on a response with status code c: 401 and 404 have
\* their own messages, c >= 500 is a server error, any other c >= 400 a
\* failed request, the rest a success; the flag is true iff c < 400.
C5_EndpointStatusMapping ==
    (op = "test_endpoint" /\ pc # "idle" /\ arg.outcome.exc = "")
        => LET c == arg.outcome.code IN
           /\ pc = "returned"
           /\ c = 401 => ret = Return(FALSE, Msg("Authentication failed", -1, ""))
           /\ c = 404 => ret = Return(FALSE, Msg("Endpoint not found", -1, ""))
           /\ c >= 500 =>
                ret = Return(FALSE, Msg("Server error: {response.status_code}", c, ""))
           /\ (c >= 400 /\ c < 500 /\ c \notin {401, 404}) =>
                ret = Return(FALSE, Msg("Request failed: {response.status_code}", c, ""))
           /\ c < 400 =>
                ret = Return(TRUE, Msg("Endpoint test successful: {response.status_code}", c, ""))
           /\ ret.ok <=> c < 400

C5_Witness ==
    /\ op = "test_endpoint" /\ pc = "returned"
    /\ arg.outcome.exc = "" /\ arg.outcome.code = 401
    /\ ret.msg.text = "Authentication failed"

\* the response is a 200 whose "models" array has an entry named n
HasModel(o, n) ==
    /\ o.exc = ""
    /\ o.code = 200
    /\ o.body.shape = "models_array"
    /\ \E i \in 1 .. Len(o.body.items) :
         o.body.items[i].shape = "named" /\ o.body.items[i].name = n

\* C6: check_model_status(model_name) returns true when the response is a
\* 200 whose "models" array has an entry with exactly that name, and returns
\* false for every other response.
C6_ModelFoundIffListed ==
    (op = "check_model_status" /\ pc # "idle")
        => /\ pc = "returned"
           /\ ret.ok <=> HasModel(arg.outcome, arg.model_name)

\* C7: get_detailed_status runs to its return whatever the checks answer;
\* tests then has internet, the three endpoints, and remote iff is_remote,
\* and test_endpoint was called once per endpoint, in the listed order.
C7_DetailedStatusRunsEverything ==
    op = "get_detailed_status"
        => /\ pc # "raised"
           /\ pc = "returned"
                => /\ DOMAIN ret.tests =
                        {"internet", "/api/tags", "/api/version", "/api/health"}
                            \cup (IF is_remote THEN {"remote"} ELSE {})
                   /\ LET made == SelectSeq(calls, LAMBDA c :
                                     c.fn \notin {"check_internet_connectivity",
                                                  "check_remote_server", "ping_host"})
                      IN  /\ Len(made) = 3
                          /\ made[1].fn = "test_endpoint /api/tags"
                          /\ made[2].fn = "test_endpoint /api/version"
                          /\ made[3].fn = "test_endpoint /api/health"
                   /\ calls[1].fn = "check_internet_connectivity"
                   /\ ret.tests["internet"] = calls[1].ok

C7_Witness ==
    /\ op = "get_detailed_status" /\ pc = "returned" /\ is_remote
    /\ ~ret.tests["internet"]
    /\ ~ret.tests["remote"].available
    /\ \A i \in 1 .. 3 : ~ret.tests[endpoints[i]].success

\* C8: on a local configuration check_remote_server returns true and
\* ping_host is never invoked by it, by test_connection or by
\* get_detailed_status, and neither report gets a remote entry.
C8_LocalNeverPings ==
    (~is_remote /\ op \in {"check_remote_server", "test_connection", "get_detailed_status"})
        => /\ \A i \in 1 .. Len(calls) : calls[i].fn # "ping_host"
           /\ op = "check_remote_server" => (pc = "returned" /\ ret.ok)
           /\ "remote" \notin DOMAIN results.details
           /\ "remote" \notin DOMAIN status.tests

C8_Witness ==
    /\ ~is_remote /\ hostname # "localhost"
    /\ op = "check_remote_server" /\ pc = "returned"
    /\ ret.msg.text = "Local server, no ping test needed"

\* membership of an IPv4 address in 127.0.0.0/8, 10.0.0.0/8, 172.16.0.0/12
\* or 192.168.0.0/16, on the octets
InPrivateRange(ip) ==
    \/ ip[1] = 127
    \/ ip[1] = 10
    \/ ip[1] = 172 /\ ip[2] >= 16 /\ ip[2] <= 31
    \/ ip[1] = 192 /\ ip[2] = 168

\* C9: after construction is_remote is false exactly when the hostname is
\* a loopback literal, or DNS answers with an address in one of the four
\* private ranges (the prefix test agrees with range membership).
C9_LocalityIsRangeMembership ==
    pc = "idle"
        => is_remote = ~( \/ hostname \in {"localhost", "127.0.0.1"}
                          \/ dns.ok /\ InPrivateRange(dns.ip) )

C9_Witness ==
    /\ pc = "idle" /\ hostname = "ollama.example.com"
    /\ dns.ok /\ dns.ip = <<172, 31, 255, 1>>
    /\ ~is_remote

\* C10: during test_connection the checks made are a prefix of the fixed
\* order (so each at most once), every check but the last made returned
\* true, every check made earlier is already in details with the value it
\* returned, and at return details holds exactly the checks made.
C10_OrderedRecordedNoRetry ==
    op = "test_connection"
        => LET n == Len(TopCalls)
               keys(k) == { KeyOf(TopCalls[i].fn) : i \in 1 .. k }
           IN  /\ n <= Len(CheckOrder)
               /\ \A i \in 1 .. n : TopCalls[i].fn = CheckOrder[i]
               /\ \A i \in 1 .. n - 1 : TopCalls[i].ok
               /\ DOMAIN results.details =
                    IF pc \in {"tc_internet_rec", "tc_remote_rec", "tc_server_rec",
                               "tc_model_rec", "raised"}
                    THEN keys(n - 1) ELSE keys(n)
               /\ \A i \in 1 .. n :
                    KeyOf(TopCalls[i].fn) \in DOMAIN results.details
                        => results.details[KeyOf(TopCalls[i].fn)].available = TopCalls[i].ok
               /\ pc = "returned" => ret = results

C10_Witness ==
    /\ op = "test_connection" /\ pc = "returned" /\ is_remote
    /\ Len(TopCalls) = 4
    /\ ret.status = "MODEL_NOT_LOADED"
    /\ DOMAIN ret.details = {"internet", "remote", "server", "model"}

====
